---------------------------- MODULE Spec2Model ----------------------------
(* Model of the two scripts of the repository:                            *)
(*   index/csv_to_xml.py      - CSV to glossary XML converter             *)
(*   en/tools/translate_html.py - HTML translation through a remote API   *)
(* A text is a sequence of one-character strings, so that splitting,      *)
(* trimming and extension handling are computed character by character.   *)
EXTENDS Integers, Sequences, FiniteSets, TLC

(* ---------------------------------------------------------------------- *)
(* Bounds of the model                                                    *)
(* ---------------------------------------------------------------------- *)
MaxDataRows == 2
MaxTagLen == 4
MaxPathLen == 5
MaxHtmlLen == 2

(* ---------------------------------------------------------------------- *)
(* Texts                                                                  *)
(* ---------------------------------------------------------------------- *)
Whitespace == {" ", "\t", "\n", "\r", "\f"}

TagAlphabet == {"a", "b", " ", ","}

PathAlphabet == {".", "/", "x", "m", "l"}

\* every text over alphabet A of length at most n
Texts(A, n) == UNION {[1..k -> A] : k \in 0..n}

\* index of the first occurrence of c in s, 0 when there is none (str.find + 1)
Find(s, c) ==
    IF \E i \in 1..Len(s) : s[i] = c
    THEN CHOOSE i \in 1..Len(s) : s[i] = c /\ \A j \in 1..(i - 1) : s[j] # c
    ELSE 0

\* index of the last occurrence of c in s, 0 when there is none (str.rfind + 1)
RFind(s, c) ==
    IF \E i \in 1..Len(s) : s[i] = c
    THEN CHOOSE i \in 1..Len(s) : s[i] = c /\ \A j \in (i + 1)..Len(s) : s[j] # c
    ELSE 0

\* str.split(sep): one piece more than there are separators, empty pieces kept
RECURSIVE Split(_, _)
Split(s, sep) ==
    LET i == Find(s, sep)
    IN  IF i = 0 THEN <<s>>
        ELSE <<SubSeq(s, 1, i - 1)>> \o Split(SubSeq(s, i + 1, Len(s)), sep)

\* str.strip(): leading and trailing whitespace removed, inner whitespace kept
RECURSIVE LStrip(_)
LStrip(s) ==
    IF s # <<>> /\ Head(s) \in Whitespace THEN LStrip(Tail(s)) ELSE s

RECURSIVE RStrip(_)
RStrip(s) ==
    IF s # <<>> /\ s[Len(s)] \in Whitespace
    THEN RStrip(SubSeq(s, 1, Len(s) - 1)) ELSE s

Strip(s) == RStrip(LStrip(s))

(* ---------------------------------------------------------------------- *)
(* csv_to_xml.py: the element tree                                        *)
(* ---------------------------------------------------------------------- *)
\* ET.SubElement(parent, tag) with children only
Container(tag, children) == [tag |-> tag, children |-> children]

\* ET.SubElement(parent, tag).text = text
Leaf(tag, text) == [tag |-> tag, text |-> text, children |-> <<>>]

\* the static INFO children of lines 15-27, followed by the ENTRIES container
InfoFields ==
    << Leaf("NAME", <<"F", "o", "g", "a", "l", "o", "m", "t", "á", "r">>),
       Leaf("INTRO", <<>>),
       Leaf("INTROFORMAT", <<"1">>),
       Leaf("ALLOWDUPLICATEDENTRIES", <<"0">>),
       Leaf("DISPLAYFORMAT", <<"d", "i", "c", "t", "i", "o", "n", "a", "r", "y">>),
       Leaf("SHOWSPECIAL", <<"1">>),
       Leaf("SHOWALPHABET", <<"1">>),
       Leaf("SHOWALL", <<"1">>),
       Leaf("ALLOWCOMMENTS", <<"0">>),
       Leaf("USEDYNALINK", <<"1">>),
       Leaf("DEFAULTAPPROVAL", <<"1">>),
       Leaf("GLOBALGLOSSARY", <<"0">>),
       Leaf("ENTBYPAGE", <<"1", "0">>) >>

\* position of ENTRIES among the children of INFO
EntriesIndex == Len(InfoFields) + 1

\* the tree of lines 11-29: GLOSSARY / INFO / static fields, ENTRIES (empty)
EmptyGlossary ==
    Container("GLOSSARY",
              << Container("INFO", Append(InfoFields, Container("ENTRIES", <<>>))) >>)

\* the f-string of line 41
DefinitionPrefix ==
    << "<", "p", " ", "d", "i", "r", "=", "\"", "l", "t", "r", "\"", " ",
       "s", "t", "y", "l", "e", "=", "\"", "t", "e", "x", "t", "-", "a", "l",
       "i", "g", "n", ":", " ", "l", "e", "f", "t", ";", "\"", ">" >>

DefinitionSuffix == << "<", "b", "r", "/", ">", "<", "/", "p", ">" >>

\* faulty variant: the definition is stripped before it is wrapped
definition_html_stripped(definition) ==
    DefinitionPrefix \o Strip(definition) \o DefinitionSuffix

definition_html(definition) == DefinitionPrefix \o definition \o DefinitionSuffix

\* faulty variant: the pieces are stripped but the empty ones are not dropped
StripKeepEmpty(pieces) == [i \in 1..Len(pieces) |-> Strip(pieces[i])]

\* the comprehension of line 54 over the pieces of the split: a piece is kept
\* when its stripped form is non-empty, and the stripped form is what is kept
RECURSIVE StripNonEmpty(_)
StripNonEmpty(pieces) ==
    IF pieces = <<>> THEN <<>>
    ELSE IF Strip(Head(pieces)) # <<>>
         THEN <<Strip(Head(pieces))>> \o StripNonEmpty(Tail(pieces))
         ELSE StripNonEmpty(Tail(pieces))

\* line 54: [tag.strip() for tag in tags.split(',') if tag.strip()]
tag_list(tags) == StripNonEmpty(Split(tags, ","))

\* lines 52-57: ALIASES with one ALIAS / NAME per tag
Aliases(tags) ==
    LET tl == tag_list(tags)
    IN  Container("ALIASES",
                  [i \in 1..Len(tl) |-> Container("ALIAS", <<Leaf("NAME", tl[i])>>)])

\* the static ENTRY children of lines 45-50
EntryFlags ==
    << Leaf("FORMAT", <<"1">>),
       Leaf("DEFINITIONTRUST", <<"0">>),
       Leaf("USEDYNALINK", <<"0">>),
       Leaf("CASESENSITIVE", <<"0">>),
       Leaf("FULLMATCH", <<"0">>),
       Leaf("TEACHERENTRY", <<"1">>) >>

\* faulty variant: ALIASES is created only for a row that has tags
EntryWithoutEmptyAliases(row) ==
    Container("ENTRY",
              << Leaf("CONCEPT", row[1]),
                 Leaf("DEFINITION", definition_html(row[2])) >>
              \o EntryFlags
              \o IF tag_list(row[3]) = <<>> THEN <<>> ELSE << Aliases(row[3]) >>)

\* lines 35-57: the ENTRY built from one three-field row
Entry(row) ==
    Container("ENTRY",
              << Leaf("CONCEPT", row[1]),
                 Leaf("DEFINITION", definition_html(row[2])) >>
              \o EntryFlags
              \o << Aliases(row[3]) >>)

\* the ENTRY elements of a tree, in document order
EntriesOf(tree) == tree.children[1].children[EntriesIndex].children

\* faulty variant: an entry whose CONCEPT is already in the tree is dropped
AddEntryUnlessKnown(tree, entry) ==
    IF \E i \in 1..Len(EntriesOf(tree)) :
           EntriesOf(tree)[i].children[1] = entry.children[1]
    THEN tree
    ELSE [tree EXCEPT !.children[1].children[EntriesIndex].children = Append(@, entry)]

\* ET.SubElement(entries, "ENTRY"): the entry is appended under INFO/ENTRIES
AddEntry(tree, entry) ==
    [tree EXCEPT !.children[1].children[EntriesIndex].children = Append(@, entry)]

(* ---------------------------------------------------------------------- *)
(* csv_to_xml.py: paths and the file system                               *)
(* ---------------------------------------------------------------------- *)
\* the while loop of os.path.splitext: is there a character other than a dot
\* between filenameIndex and the last dot
RECURSIVE HasNameBeforeDot(_, _, _)
HasNameBeforeDot(path, filenameIndex, dotIndex) ==
    IF filenameIndex >= dotIndex THEN FALSE
    ELSE IF path[filenameIndex] # "." THEN TRUE
         ELSE HasNameBeforeDot(path, filenameIndex + 1, dotIndex)

\* faulty variant: the extension starts at the last dot, leading dots included
splitext_lastdot(path) ==
    LET sepIndex == RFind(path, "/")
        dotIndex == RFind(path, ".")
    IN  IF dotIndex > sepIndex
        THEN << SubSeq(path, 1, dotIndex - 1), SubSeq(path, dotIndex, Len(path)) >>
        ELSE << path, <<>> >>

\* os.path.splitext(path) as line 72 calls it: <<base, extension>>
splitext(path) ==
    LET sepIndex == RFind(path, "/")
        dotIndex == RFind(path, ".")
    IN  IF dotIndex > sepIndex /\ HasNameBeforeDot(path, sepIndex + 1, dotIndex)
        THEN << SubSeq(path, 1, dotIndex - 1), SubSeq(path, dotIndex, Len(path)) >>
        ELSE << path, <<>> >>

DotXml == <<".", "x", "m", "l">>

\* lines 70-73: an absent or empty second argument selects the default
DefaultOrGiven(input_csv, output_xml) ==
    IF output_xml # <<>> /\ output_xml[1] # <<>>
    THEN output_xml[1]
    ELSE splitext(input_csv)[1] \o DotXml

\* the directory part of a path, up to and including its last separator
DirPart(path) == SubSeq(path, 1, RFind(path, "/"))

\* a path that names a directory that always exists: only /, . and ..
IsDirectoryPath(path) ==
    /\ path # <<>>
    /\ LET comps == Split(path, "/")
       IN  \A i \in 1..Len(comps) : comps[i] \in {<<>>, <<".">>, <<".", ".">>}

\* content of a file
CsvFile(rows) == [kind |-> "csv", rows |-> rows]

OldFile == [kind |-> "old"]

TruncatedFile == [kind |-> "truncated"]

XmlFile(text) == [kind |-> "xml", text |-> text]

\* the document of lines 81-83: declaration, two-space indentation, the tree
toprettyxml(tree) ==
    [declaration |-> "<?xml version=\"1.0\" encoding=\"UTF-8\"?>",
     indent |-> "  ",
     root |-> tree]

\* characters the XML parser of line 82 rejects
InvalidXmlChars == {"\f"}

HasInvalidXmlChar(text) == \E i \in 1..Len(text) : text[i] \in InvalidXmlChars

\* minidom.parseString fails on a tree one of whose texts holds such a character
NotWellFormed(tree) ==
    \E i \in 1..Len(EntriesOf(tree)) :
        LET e == EntriesOf(tree)[i]
            al == e.children[Len(e.children)].children
        IN  \/ HasInvalidXmlChar(e.children[1].text)
            \/ HasInvalidXmlChar(e.children[2].text)
            \/ \E j \in 1..Len(al) : HasInvalidXmlChar(al[j].children[1].text)

\* the two status lines
SuccessMessage(input_csv, output_path) ==
    [line |-> "Successfully converted", input |-> input_csv, output |-> output_path]

NotFoundMessage(input_csv) ==
    [line |-> "Error: Input file not found at", input |-> input_csv]

(* ---------------------------------------------------------------------- *)
(* csv_to_xml.py: state of one run of main                                *)
(* ---------------------------------------------------------------------- *)
VARIABLES
    args,             \* parsed command line: input_csv, output_xml (<<>> = absent)
    files,            \* the file system: path -> content, for the existing files
    dirs,             \* directory parts under which a file can be created
    denied,           \* existing paths whose open fails (a directory, no permission)
    diskFull,         \* whether writing to the opened output fails
    files0,           \* the file system before the run
    pc,               \* position of main
    output_xml_path,  \* line 70-73
    csv_file,         \* "unopened", "open" or "closed" (the with block of line 76)
    csv_data,         \* the rows the csv reader yields
    consumed,         \* how many of them the reader has yielded
    glossary,         \* the tree under construction in create_xml_structure
    xml_data,         \* line 78: <<>> until create_xml_structure returned, then <<tree>>
    pretty_xml,       \* line 83: <<>> until serialized, then <<text>>
    stdout,           \* the lines printed
    exc,              \* the exception that left main, "none" if none
    log               \* the file and build operations performed, in order

mainVars ==
    << args, files, dirs, denied, diskFull, files0, pc, output_xml_path, csv_file,
       csv_data, consumed, glossary, xml_data, pretty_xml, stdout, exc, log >>

envVars == << args, dirs, denied, diskFull, files0 >>

(* inputs *)
Cat == <<"C", "a", "t">>

Dog == <<"D", "o", "g">>

Terms == {Cat, Dog}

Definitions ==
    { <<>>,
      <<" ", "x", " ">>,
      <<"<", "b", ">", "&", "<", "/", "b", ">">> }

SampleTags == { <<>>, <<"a", ",", "b">> }

\* rows the loop of line 34 cannot unpack: a blank line, two fields, four fields
MalformedRows ==
    { <<>>,
      <<Cat, <<"x">>>>,
      <<Cat, <<"x">>, <<"a">>, <<"b">>>> }

DataRows == (Terms \X Definitions \X SampleTags) \cup MalformedRows

\* first rows: a usual header, a row that looks like data, and malformed ones
HeaderRow == << <<"t">>, <<"d">>, <<"g">> >>

HeaderRows == { HeaderRow, <<Dog, <<"x">>, <<"a">>>> } \cup MalformedRows

RowInputs ==
    { <<>> } \cup
    UNION { { <<h>> \o d : h \in HeaderRows, d \in [1..k -> DataRows] } :
            k \in 0..MaxDataRows }

TagInputs ==
    { << HeaderRow, <<Cat, <<"x">>, t>> >> : t \in Texts(TagAlphabet, MaxTagLen) }

FsInputs ==
    { <<>>,
      << HeaderRow >>,
      << HeaderRow, <<Cat, <<"x">>, <<"a">>>> >>,
      << HeaderRow, <<Cat, <<"x">>>> >>,
      << HeaderRow, <<Cat, <<"\f">>, <<>>>> >> }

InCwd == <<"m", ".", "l">>

InSub == <<"x", "/", "m", ".", "l">>

InXml == <<"x", ".", "x", "m", "l">>

OutCwd == <<"l">>

OutSub == <<"m", "/", "l">>

\* the output paths a run of the file-system inputs can write to
OutCandidates ==
    { OutCwd, OutSub, InXml,
      <<"m", ".", "x", "m", "l">>,
      <<"x", "/", "m", ".", "x", "m", "l">> }

Fresh ==
    /\ pc = "parse_args"
    /\ output_xml_path = <<>>
    /\ csv_file = "unopened"
    /\ csv_data = <<>>
    /\ consumed = 0
    /\ glossary = <<>>
    /\ xml_data = <<>>
    /\ pretty_xml = <<>>
    /\ stdout = <<>>
    /\ exc = "none"
    /\ log = <<>>

\* an existing input of rows, default output path, nothing in the way
InitRows ==
    /\ \E rows \in RowInputs \cup TagInputs :
           files = [p \in {InCwd} |-> CsvFile(rows)]
    /\ args = [input_csv |-> InCwd, output_xml |-> <<>>]
    /\ dirs = {<<>>}
    /\ denied = {}
    /\ diskFull = FALSE
    /\ files0 = files
    /\ Fresh

\* every input path, with no, an empty and a non-empty second argument
InitPaths ==
    /\ \E ip \in Texts(PathAlphabet, MaxPathLen) :
       \E op \in { <<>>, << <<>> >>, << OutCwd >> } :
           /\ args = [input_csv |-> ip, output_xml |-> op]
           /\ denied = IF IsDirectoryPath(ip) THEN {ip} ELSE {}
    /\ files = << >>
    /\ dirs = {<<>>}
    /\ diskFull = FALSE
    /\ files0 = files
    /\ Fresh

\* present and absent inputs, directories and output files, failing opens and writes
InitFs ==
    /\ \E ip \in {InCwd, InSub, InXml} :
       \E op \in { <<>>, << OutCwd >>, << OutSub >> } :
       \E there \in BOOLEAN :
       \E rows \in FsInputs :
       \E ds \in SUBSET { DirPart(InSub), DirPart(OutSub) } :
       \E pre \in BOOLEAN :
       \E dn \in { {}, {ip}, { q \in OutCandidates : DirPart(q) \in ds \cup {<<>>} } } :
           /\ (there \/ ip \in dn) => DirPart(ip) \in ds \cup {<<>>}
           /\ args = [input_csv |-> ip, output_xml |-> op]
           /\ dirs = ds \cup {<<>>}
           /\ denied = dn
           /\ files =
                 [p \in { q \in OutCandidates \ {ip} : pre /\ DirPart(q) \in dirs }
                        \cup { q \in {ip} : there }
                  |-> IF there /\ p = ip THEN CsvFile(rows) ELSE OldFile]
    /\ diskFull \in BOOLEAN
    /\ files0 = files
    /\ Fresh

(* ---------------------------------------------------------------------- *)
(* translate_html.py: state of one run of main                            *)
(* ---------------------------------------------------------------------- *)
VARIABLES
    t_argv,        \* sys.argv[1:]
    t_key,         \* os.environ.get("OPENAI_API_KEY"): <<>> unset, else <<value>>
    t_files,       \* the file system: path -> text
    t_files0,      \* the file system before the run
    t_writable,    \* whether out_path can be written
    t_pc,          \* position of main
    t_html,        \* line 65: <<>> until read, then <<text>>
    t_requests,    \* the requests sent to the remote service
    t_resp,        \* line 36: <<>> until the call returned, then <<response>>
    t_translated,  \* line 68: <<>> until translate_html returned, then <<text>>
    t_stderr,      \* lines printed to standard error
    t_stdout,      \* lines printed to standard output
    t_ret,         \* the value main returned, <<>> if it has not returned
    t_exc          \* the exception that left main, "none" if none

trVars ==
    << t_argv, t_key, t_files, t_files0, t_writable, t_pc, t_html, t_requests,
       t_resp, t_translated, t_stderr, t_stdout, t_ret, t_exc >>

trEnv == << t_argv, t_key, t_files0, t_writable >>

\* the translation script is not running
TrIdle ==
    /\ t_argv = <<>>
    /\ t_key = <<>>
    /\ t_files = <<>>
    /\ t_files0 = <<>>
    /\ t_writable = TRUE
    /\ t_pc = "idle"
    /\ t_html = <<>>
    /\ t_requests = <<>>
    /\ t_resp = <<>>
    /\ t_translated = <<>>
    /\ t_stderr = <<>>
    /\ t_stdout = <<>>
    /\ t_ret = <<>>
    /\ t_exc = "none"

\* the converter is not running
MainIdle ==
    /\ args = [input_csv |-> <<>>, output_xml |-> <<>>]
    /\ files = <<>>
    /\ dirs = {}
    /\ denied = {}
    /\ diskFull = FALSE
    /\ files0 = <<>>
    /\ pc = "idle"
    /\ output_xml_path = <<>>
    /\ csv_file = "unopened"
    /\ csv_data = <<>>
    /\ consumed = 0
    /\ glossary = <<>>
    /\ xml_data = <<>>
    /\ pretty_xml = <<>>
    /\ stdout = <<>>
    /\ exc = "none"
    /\ log = <<>>

(* ---------------------------------------------------------------------- *)
(* csv_to_xml.py: main and create_xml_structure, step by step             *)
(* ---------------------------------------------------------------------- *)
\* an exception other than FileNotFoundError leaves main; the with block of
\* line 76 closes the input on the way out
Raise(name) ==
    /\ exc' = name
    /\ pc' = "raised"
    /\ csv_file' = IF csv_file = "open" THEN "closed" ELSE csv_file
    /\ log' = IF csv_file = "open" THEN Append(log, "close_input") ELSE log

\* lines 65-73
ParseArgs ==
    /\ pc = "parse_args"
    /\ output_xml_path' = DefaultOrGiven(args.input_csv, args.output_xml)
    /\ pc' = "open_input"
    /\ UNCHANGED << trVars, envVars, files, csv_file, csv_data, consumed, glossary,
                    xml_data, pretty_xml, stdout, exc, log >>

\* faulty variant: the output is opened for writing along with the input
OpenInputAndOutput ==
    /\ pc = "open_input"
    /\ args.input_csv \notin denied
    /\ args.input_csv \in DOMAIN files
    /\ csv_file' = "open"
    /\ csv_data' = files[args.input_csv].rows
    /\ consumed' = 0
    /\ files' = [p \in DOMAIN files \cup {output_xml_path} |->
                    IF p = output_xml_path THEN TruncatedFile ELSE files[p]]
    /\ log' = Append(log, "open_input")
    /\ pc' = "create_info"
    /\ UNCHANGED << trVars, envVars, output_xml_path, glossary, xml_data,
                    pretty_xml, stdout, exc >>

\* lines 76-77: the input is opened and handed to the csv reader
OpenInput ==
    /\ pc = "open_input"
    /\ args.input_csv \notin denied
    /\ args.input_csv \in DOMAIN files
    /\ csv_file' = "open"
    /\ csv_data' = files[args.input_csv].rows
    /\ consumed' = 0
    /\ log' = Append(log, "open_input")
    /\ pc' = "create_info"
    /\ UNCHANGED << trVars, envVars, files, output_xml_path, glossary, xml_data,
                    pretty_xml, stdout, exc >>

\* faulty variant: the FileNotFoundError of line 76 is not caught
OpenInputNotFoundUncaught ==
    /\ pc = "open_input"
    /\ args.input_csv \notin denied
    /\ args.input_csv \notin DOMAIN files
    /\ Raise("FileNotFoundError")
    /\ UNCHANGED << trVars, envVars, files, output_xml_path, csv_data, consumed,
                    glossary, xml_data, pretty_xml, stdout >>

\* line 76: there is no such file; FileNotFoundError reaches line 90
OpenInputNotFound ==
    /\ pc = "open_input"
    /\ args.input_csv \notin denied
    /\ args.input_csv \notin DOMAIN files
    /\ pc' = "except"
    /\ UNCHANGED << trVars, envVars, files, output_xml_path, csv_file, csv_data, consumed,
                    glossary, xml_data, pretty_xml, stdout, exc, log >>

\* line 76: the open fails otherwise (a directory, no permission)
OpenInputDenied ==
    /\ pc = "open_input"
    /\ args.input_csv \in denied
    /\ Raise("OSError")
    /\ UNCHANGED << trVars, envVars, files, output_xml_path, csv_data, consumed, glossary,
                    xml_data, pretty_xml, stdout >>

\* lines 11-29: the static part of the tree
CreateInfo ==
    /\ pc = "create_info"
    /\ glossary' = << EmptyGlossary >>
    /\ pc' = "skip_header"
    /\ UNCHANGED << trVars, envVars, files, output_xml_path, csv_file, csv_data, consumed,
                    xml_data, pretty_xml, stdout, exc, log >>

\* faulty variant: the first row is left to the loop
SkipHeaderKept ==
    /\ pc = "skip_header"
    /\ consumed < Len(csv_data)
    /\ pc' = "loop"
    /\ UNCHANGED << trVars, envVars, files, output_xml_path, csv_file, csv_data,
                    consumed, glossary, xml_data, pretty_xml, stdout, exc, log >>

\* line 32: next(csv_data) takes the first row, whatever it holds
SkipHeader ==
    /\ pc = "skip_header"
    /\ consumed < Len(csv_data)
    /\ consumed' = consumed + 1
    /\ pc' = "loop"
    /\ UNCHANGED << trVars, envVars, files, output_xml_path, csv_file, csv_data, glossary,
                    xml_data, pretty_xml, stdout, exc, log >>

\* line 32: next(csv_data) on a reader with no row raises StopIteration
SkipHeaderStop ==
    /\ pc = "skip_header"
    /\ consumed >= Len(csv_data)
    /\ Raise("StopIteration")
    /\ UNCHANGED << trVars, envVars, files, output_xml_path, csv_data, consumed, glossary,
                    xml_data, pretty_xml, stdout >>

\* lines 34-57: one iteration of the loop on a row of three fields
LoopRow ==
    /\ pc = "loop"
    /\ consumed < Len(csv_data)
    /\ Len(csv_data[consumed + 1]) = 3
    /\ consumed' = consumed + 1
    /\ glossary' = << AddEntry(glossary[1], Entry(csv_data[consumed + 1])) >>
    /\ UNCHANGED << trVars, envVars, files, pc, output_xml_path, csv_file, csv_data,
                    xml_data, pretty_xml, stdout, exc, log >>

\* line 35: the unpacking of a row of another number of fields raises ValueError
LoopRowMalformed ==
    /\ pc = "loop"
    /\ consumed < Len(csv_data)
    /\ Len(csv_data[consumed + 1]) # 3
    /\ consumed' = consumed + 1
    /\ Raise("ValueError")
    /\ UNCHANGED << trVars, envVars, files, output_xml_path, csv_data, glossary, xml_data,
                    pretty_xml, stdout >>

\* lines 59 and 78: the reader is exhausted, the tree is returned, the with
\* block closes the input
Return ==
    /\ pc = "loop"
    /\ consumed >= Len(csv_data)
    /\ xml_data' = glossary
    /\ csv_file' = "closed"
    /\ log' = log \o << "build", "close_input" >>
    /\ pc' = "serialize"
    /\ UNCHANGED << trVars, envVars, files, output_xml_path, csv_data, consumed, glossary,
                    pretty_xml, stdout, exc >>

\* lines 81-83
Serialize ==
    /\ pc = "serialize"
    /\ ~ NotWellFormed(xml_data[1])
    /\ pretty_xml' = << toprettyxml(xml_data[1]) >>
    /\ log' = Append(log, "serialize")
    /\ pc' = "open_output"
    /\ UNCHANGED << trVars, envVars, files, output_xml_path, csv_file, csv_data, consumed,
                    glossary, xml_data, stdout, exc >>

\* line 82: the parser rejects the serialized tree
SerializeFails ==
    /\ pc = "serialize"
    /\ NotWellFormed(xml_data[1])
    /\ Raise("ExpatError")
    /\ UNCHANGED << trVars, envVars, files, output_xml_path, csv_data, consumed, glossary,
                    xml_data, pretty_xml, stdout >>

\* whether open(path, 'w') finds no place to create the file
NoSuchDirectory(path) == IF path = <<>> THEN TRUE ELSE DirPart(path) \notin dirs

\* line 85: the output is created or truncated
OpenOutput ==
    /\ pc = "open_output"
    /\ output_xml_path \notin denied
    /\ ~ NoSuchDirectory(output_xml_path)
    /\ files' = [p \in DOMAIN files \cup {output_xml_path} |->
                    IF p = output_xml_path THEN TruncatedFile ELSE files[p]]
    /\ log' = Append(log, "open_output")
    /\ pc' = "write_output"
    /\ UNCHANGED << trVars, envVars, output_xml_path, csv_file, csv_data, consumed, glossary,
                    xml_data, pretty_xml, stdout, exc >>

\* line 85: the directory of the output does not exist; the FileNotFoundError
\* of this open is inside the try block too, and reaches line 90
OpenOutputNotFound ==
    /\ pc = "open_output"
    /\ output_xml_path \notin denied
    /\ NoSuchDirectory(output_xml_path)
    /\ pc' = "except"
    /\ UNCHANGED << trVars, envVars, files, output_xml_path, csv_file, csv_data, consumed,
                    glossary, xml_data, pretty_xml, stdout, exc, log >>

\* line 85: the open fails otherwise
OpenOutputDenied ==
    /\ pc = "open_output"
    /\ output_xml_path \in denied
    /\ Raise("OSError")
    /\ UNCHANGED << trVars, envVars, files, output_xml_path, csv_data, consumed, glossary,
                    xml_data, pretty_xml, stdout >>

\* line 86
WriteOutput ==
    /\ pc = "write_output"
    /\ ~ diskFull
    /\ files' = [files EXCEPT ![output_xml_path] = XmlFile(pretty_xml[1])]
    /\ log' = Append(log, "write_output")
    /\ pc' = "print_success"
    /\ UNCHANGED << trVars, envVars, output_xml_path, csv_file, csv_data, consumed, glossary,
                    xml_data, pretty_xml, stdout, exc >>

\* line 86: the write fails
WriteOutputFails ==
    /\ pc = "write_output"
    /\ diskFull
    /\ Raise("OSError")
    /\ UNCHANGED << trVars, envVars, files, output_xml_path, csv_data, consumed, glossary,
                    xml_data, pretty_xml, stdout >>

\* line 88
PrintSuccess ==
    /\ pc = "print_success"
    /\ stdout' = Append(stdout, SuccessMessage(args.input_csv, output_xml_path))
    /\ pc' = "done"
    /\ UNCHANGED << trVars, envVars, files, output_xml_path, csv_file, csv_data, consumed,
                    glossary, xml_data, pretty_xml, exc, log >>

\* lines 90-91
ExceptFileNotFound ==
    /\ pc = "except"
    /\ stdout' = Append(stdout, NotFoundMessage(args.input_csv))
    /\ pc' = "done"
    /\ UNCHANGED << trVars, envVars, files, output_xml_path, csv_file, csv_data, consumed,
                    glossary, xml_data, pretty_xml, exc, log >>

Init == (InitFs \/ InitRows \/ InitPaths) /\ TrIdle

Next ==
    \/ ParseArgs
    \/ OpenInput
    \/ OpenInputNotFound
    \/ OpenInputDenied
    \/ CreateInfo
    \/ SkipHeader
    \/ SkipHeaderStop
    \/ LoopRow
    \/ LoopRowMalformed
    \/ Return
    \/ Serialize
    \/ SerializeFails
    \/ OpenOutput
    \/ OpenOutputNotFound
    \/ OpenOutputDenied
    \/ WriteOutput
    \/ WriteOutputFails
    \/ PrintSuccess
    \/ ExceptFileNotFound

vars == << mainVars, trVars >>

Spec == Init /\ [][Next]_vars

(* ---------------------------------------------------------------------- *)
(* translate_html.py                                                      *)
(* ---------------------------------------------------------------------- *)
MODEL == "gpt-4.1-nano"

TEMPERATURE == 0

HtmlAlphabet == {"<", "é"}

TranslatedAlphabet == {"<", "e"}

TIn == <<"i">>

TOut == <<"o">>

\* line 34: the delimiters around the document
user_input(html) ==
    <<"<", "<", "<", "H", "T", "M", "L", "\n">> \o html
        \o <<"\n", "H", "T", "M", "L", "\n">>

\* lines 36-40: the request of responses.create
Request(html) ==
    [model |-> MODEL,
     instructions |-> "INSTRUCTIONS",
     input |-> user_input(html),
     temperature |-> TEMPERATURE]

\* what the remote call can return: no output_text attribute, None (<<>>),
\* an empty text or a text
Responses ==
    { [has_output_text |-> FALSE] } \cup
    { [has_output_text |-> TRUE, output_text |-> t] :
        t \in { <<>> } \cup { <<x>> : x \in Texts(TranslatedAlphabet, MaxHtmlLen) } }

\* line 46: getattr(resp, "output_text", None)
OutputText(resp) == IF resp.has_output_text THEN resp.output_text ELSE <<>>

\* faulty variant: only None is false
IsNone(text) == text = <<>>

\* the truth value of an optional text: None and "" are false
Falsy(text) == IF text = <<>> THEN TRUE ELSE text[1] = <<>>

InitTr ==
    /\ MainIdle
    /\ t_argv \in UNION { [1..k -> {TIn, TOut}] : k \in 0..3 }
    /\ t_key \in { <<>>, << <<>> >>, << <<"k">> >> }
    /\ \E present \in SUBSET {TIn, TOut} :
       \E h \in Texts(HtmlAlphabet, MaxHtmlLen) :
           t_files = [p \in present |-> h]
    /\ t_files0 = t_files
    /\ t_writable \in BOOLEAN
    /\ t_pc = "check_args"
    /\ t_html = <<>>
    /\ t_requests = <<>>
    /\ t_resp = <<>>
    /\ t_translated = <<>>
    /\ t_stderr = <<>>
    /\ t_stdout = <<>>
    /\ t_ret = <<>>
    /\ t_exc = "none"

TrRaise(name) ==
    /\ t_exc' = name
    /\ t_pc' = "raised"

\* lines 53-55: sys.argv holds the script name and the arguments
TrUsage ==
    /\ t_pc = "check_args"
    /\ Len(t_argv) + 1 # 3
    /\ t_stderr' = Append(t_stderr, "usage")
    /\ t_ret' = <<2>>
    /\ t_pc' = "done"
    /\ UNCHANGED << mainVars, trEnv, t_files, t_html, t_requests, t_resp,
                    t_translated, t_stdout, t_exc >>

\* lines 53-58
TrArgsOk ==
    /\ t_pc = "check_args"
    /\ Len(t_argv) + 1 = 3
    /\ t_pc' = "check_key"
    /\ UNCHANGED << mainVars, trEnv, t_files, t_html, t_requests, t_resp,
                    t_translated, t_stderr, t_stdout, t_ret, t_exc >>

\* lines 60-63
TrNoKey ==
    /\ t_pc = "check_key"
    /\ Falsy(t_key)
    /\ t_stderr' = Append(t_stderr, "no key")
    /\ t_ret' = <<2>>
    /\ t_pc' = "done"
    /\ UNCHANGED << mainVars, trEnv, t_files, t_html, t_requests, t_resp,
                    t_translated, t_stdout, t_exc >>

\* lines 60-61
TrKeyOk ==
    /\ t_pc = "check_key"
    /\ ~ Falsy(t_key)
    /\ t_pc' = "read"
    /\ UNCHANGED << mainVars, trEnv, t_files, t_html, t_requests, t_resp,
                    t_translated, t_stderr, t_stdout, t_ret, t_exc >>

\* line 65
TrRead ==
    /\ t_pc = "read"
    /\ t_argv[1] \in DOMAIN t_files
    /\ t_html' = << t_files[t_argv[1]] >>
    /\ t_pc' = "call"
    /\ UNCHANGED << mainVars, trEnv, t_files, t_requests, t_resp, t_translated,
                    t_stderr, t_stdout, t_ret, t_exc >>

\* line 65: the input does not exist
TrReadFails ==
    /\ t_pc = "read"
    /\ t_argv[1] \notin DOMAIN t_files
    /\ TrRaise("FileNotFoundError")
    /\ UNCHANGED << mainVars, trEnv, t_files, t_html, t_requests, t_resp,
                    t_translated, t_stderr, t_stdout, t_ret >>

\* lines 67-68 and 34-44: the request is sent and a response comes back
TrCall ==
    /\ t_pc = "call"
    /\ t_requests' = Append(t_requests, Request(t_html[1]))
    /\ \E r \in Responses : t_resp' = << r >>
    /\ t_pc' = "check_text"
    /\ UNCHANGED << mainVars, trEnv, t_files, t_html, t_translated, t_stderr,
                    t_stdout, t_ret, t_exc >>

\* lines 36-44: the remote call raises
TrCallFails ==
    /\ t_pc = "call"
    /\ t_requests' = Append(t_requests, Request(t_html[1]))
    /\ TrRaise("APIError")
    /\ UNCHANGED << mainVars, trEnv, t_files, t_html, t_resp, t_translated,
                    t_stderr, t_stdout, t_ret >>

\* lines 46-50 and 68: a non-empty text is returned to main
TrText ==
    /\ t_pc = "check_text"
    /\ ~ Falsy(OutputText(t_resp[1]))
    /\ t_translated' = OutputText(t_resp[1])
    /\ t_pc' = "write"
    /\ UNCHANGED << mainVars, trEnv, t_files, t_html, t_requests, t_resp, t_stderr,
                    t_stdout, t_ret, t_exc >>

\* lines 47-48
TrNoText ==
    /\ t_pc = "check_text"
    /\ Falsy(OutputText(t_resp[1]))
    /\ TrRaise("RuntimeError")
    /\ UNCHANGED << mainVars, trEnv, t_files, t_html, t_requests, t_resp,
                    t_translated, t_stderr, t_stdout, t_ret >>

\* line 70
TrWrite ==
    /\ t_pc = "write"
    /\ t_writable
    /\ t_files' = [p \in DOMAIN t_files \cup {t_argv[2]} |->
                      IF p = t_argv[2] THEN t_translated[1] ELSE t_files[p]]
    /\ t_pc' = "print"
    /\ UNCHANGED << mainVars, trEnv, t_html, t_requests, t_resp, t_translated,
                    t_stderr, t_stdout, t_ret, t_exc >>

\* line 70: the output cannot be written
TrWriteFails ==
    /\ t_pc = "write"
    /\ ~ t_writable
    /\ TrRaise("OSError")
    /\ UNCHANGED << mainVars, trEnv, t_files, t_html, t_requests, t_resp,
                    t_translated, t_stderr, t_stdout, t_ret >>

\* lines 71-72
TrDone ==
    /\ t_pc = "print"
    /\ t_stdout' = Append(t_stdout, [line |-> "Kész:", path |-> t_argv[2]])
    /\ t_ret' = <<0>>
    /\ t_pc' = "done"
    /\ UNCHANGED << mainVars, trEnv, t_files, t_html, t_requests, t_resp,
                    t_translated, t_stderr, t_exc >>

NextTr ==
    \/ TrUsage
    \/ TrArgsOk
    \/ TrNoKey
    \/ TrKeyOk
    \/ TrRead
    \/ TrReadFails
    \/ TrCall
    \/ TrCallFails
    \/ TrText
    \/ TrNoText
    \/ TrWrite
    \/ TrWriteFails
    \/ TrDone

SpecTr == InitTr /\ [][NextTr]_vars

(* ---------------------------------------------------------------------- *)
(* Properties of create_xml_structure                                     *)
(* ---------------------------------------------------------------------- *)
\* the ENTRY elements built so far
Entries == IF glossary = <<>> THEN <<>> ELSE EntriesOf(glossary[1])

\* the input was opened and is closed again: create_xml_structure is over
Over == csv_file = "closed"

\* every row after the first has three fields
DataRowsHaveThreeFields == \A i \in 2..Len(csv_data) : Len(csv_data[i]) = 3

\* the children of an element with the given tag
ChildrenTagged(e, tag) == { k \in 1..Len(e.children) : e.children[k].tag = tag }

\* C1: for an input of a first row followed by N >= 0 rows of three fields,
\* create_xml_structure returns a tree with exactly N ENTRY elements under
\* ENTRIES, the i-th carrying the first field of the i-th data row as its
\* CONCEPT; rows with equal terms each keep their own ENTRY.
C1_OneEntryPerRowInOrder ==
    (Over /\ csv_data # <<>> /\ DataRowsHaveThreeFields) =>
        /\ xml_data # <<>>
        /\ LET es == EntriesOf(xml_data[1])
           IN  /\ Len(es) = Len(csv_data) - 1
               /\ \A i \in 1..Len(es) :
                     /\ es[i].tag = "ENTRY"
                     /\ \E k \in ChildrenTagged(es[i], "CONCEPT") :
                           es[i].children[k].text = csv_data[i + 1][1]

\* two data rows with the same term were converted and both have their ENTRY
C1_Witness ==
    /\ xml_data # <<>>
    /\ Len(csv_data) = 3
    /\ csv_data[2][1] = csv_data[3][1]
    /\ csv_data[2] # csv_data[3]
    /\ Len(EntriesOf(xml_data[1])) = 2

(* the tokens of a tags field, stated over positions instead of by splitting *)
\* positions that delimit the pieces: before the text, each comma, after the text
Delimiters(s) == {0, Len(s) + 1} \cup { i \in 1..Len(s) : s[i] = "," }

\* the delimiter that follows delimiter b
NextDelimiter(s, b) ==
    CHOOSE n \in Delimiters(s) :
        n > b /\ \A m \in Delimiters(s) : m > b => n <= m

\* positions of the piece after delimiter b that hold no whitespace
Solid(s, b) == { i \in (b + 1)..(NextDelimiter(s, b) - 1) : s[i] \notin Whitespace }

\* delimiters whose piece is not empty once trimmed
TokenStarts(s) == { b \in Delimiters(s) \ {Len(s) + 1} : Solid(s, b) # {} }

\* the piece after delimiter b from its first to its last solid position
Token(s, b) ==
    LET lo == CHOOSE i \in Solid(s, b) : \A j \in Solid(s, b) : i <= j
        hi == CHOOSE i \in Solid(s, b) : \A j \in Solid(s, b) : i >= j
    IN  SubSeq(s, lo, hi)

\* the k-th token of s
KthToken(s, k) ==
    Token(s, CHOOSE b \in TokenStarts(s) :
                 Cardinality({ c \in TokenStarts(s) : c < b }) = k - 1)

\* the ALIASES element of an entry
AliasesOf(e) == e.children[CHOOSE k \in ChildrenTagged(e, "ALIASES") : TRUE]

\* C2: the ALIAS elements of the entry of a row are exactly the non-empty
\* trimmed comma-separated tokens of its tags field, in order, repeats kept:
\* as many ALIAS as tokens (none for a field of commas and whitespace only),
\* each holding one NAME whose text is the token.
C2_AliasesAreTrimmedTokens ==
    \A i \in 1..Len(Entries) :
        LET tags == csv_data[i + 1][3]
            al == AliasesOf(Entries[i]).children
        IN  /\ Len(al) = Cardinality(TokenStarts(tags))
            /\ \A k \in 1..Len(al) :
                  /\ al[k].tag = "ALIAS"
                  /\ Len(al[k].children) = 1
                  /\ al[k].children[1].tag = "NAME"
                  /\ al[k].children[1].text = KthToken(tags, k)

\* a tags field with a repeated tag and whitespace to trim gave two equal aliases
C2_Witness ==
    /\ Len(Entries) = 1
    /\ csv_data[2][3] = <<"a", ",", " ", "a">>
    /\ Len(AliasesOf(Entries[1]).children) = 2
    /\ AliasesOf(Entries[1]).children[1] = AliasesOf(Entries[1]).children[2]

\* the DEFINITION element of an entry
DefinitionOf(e) == e.children[CHOOSE k \in ChildrenTagged(e, "DEFINITION") : TRUE]

\* C3: the DEFINITION text of the entry of a row is the fixed prefix, then the
\* definition field of the row character for character, then the fixed suffix.
C3_DefinitionWrappedVerbatim ==
    \A i \in 1..Len(Entries) :
        LET d == csv_data[i + 1][2]
            t == DefinitionOf(Entries[i]).text
            np == Len(DefinitionPrefix)
        IN  /\ Len(t) = np + Len(d) + Len(DefinitionSuffix)
            /\ SubSeq(t, 1, np) = DefinitionPrefix
            /\ SubSeq(t, np + 1, np + Len(d)) = d
            /\ SubSeq(t, np + Len(d) + 1, Len(t)) = DefinitionSuffix

\* an empty definition, one with surrounding blanks and one with markup were wrapped
C3_Witness ==
    /\ Len(Entries) = 2
    /\ csv_data[2][2] = <<" ", "x", " ">>
    /\ csv_data[3][2] = <<"<", "b", ">", "&", "<", "/", "b", ">">>
    /\ Len(DefinitionOf(Entries[1]).text) = Len(DefinitionPrefix) + 3 + Len(DefinitionSuffix)

\* C4 as stated: the first row is skipped whatever it holds and every later row
\* is a data row, for every input, the input with no rows included: the
\* conversion of an input whose later rows have three fields returns a tree
\* with one ENTRY per later row.
C4_HeaderSkippedForEveryInput ==
    (Over /\ DataRowsHaveThreeFields) =>
        /\ xml_data # <<>>
        /\ Len(EntriesOf(xml_data[1])) = IF csv_data = <<>> THEN 0 ELSE Len(csv_data) - 1

\* C4 amended: for an input with at least one row the first row is skipped
\* whatever it holds (it gives no ENTRY and is not unpacked) and every later
\* row is a data row (converted, or ValueError when it has not three fields);
\* an input with no rows is not accepted: next() raises StopIteration and no
\* tree is returned.
C4_HeaderSkippedWhenPresent ==
    /\ Len(Entries) <= IF consumed = 0 THEN 0 ELSE consumed - 1
    /\ \A i \in 1..Len(Entries) :
          \E k \in ChildrenTagged(Entries[i], "CONCEPT") :
              Entries[i].children[k].text = csv_data[i + 1][1]
    /\ (Over /\ csv_data # <<>> /\ DataRowsHaveThreeFields) =>
          /\ xml_data # <<>>
          /\ Len(EntriesOf(xml_data[1])) = Len(csv_data) - 1
    /\ (Over /\ ~ DataRowsHaveThreeFields) =>
          /\ exc = "ValueError"
          /\ xml_data = <<>>
          /\ \E i \in 2..Len(csv_data) :
                /\ Len(csv_data[i]) # 3
                /\ consumed = i
                /\ \A j \in 2..(i - 1) : Len(csv_data[j]) = 3
    /\ (Over /\ csv_data = <<>>) =>
          /\ exc = "StopIteration"
          /\ xml_data = <<>>

\* a first row that could not be unpacked was skipped and the next row converted
C4_Witness ==
    /\ xml_data # <<>>
    /\ Len(csv_data) = 2
    /\ Len(csv_data[1]) # 3
    /\ Len(EntriesOf(xml_data[1])) = 1

\* the tag and text of every child of an element but its last
Fields(e) ==
    [k \in 1..(Len(e.children) - 1) |-> << e.children[k].tag, e.children[k].text >>]

\* C8: every ENTRY built, after any number of rows, has one CONCEPT, one
\* DEFINITION, the six flags with their fixed values and one ALIASES, in this
\* order; the INFO block holds the same thirteen fields, followed by ENTRIES.
C8_EntryAndInfoShape ==
    /\ \A i \in 1..Len(Entries) :
          LET e == Entries[i]
          IN  /\ [k \in 1..Len(e.children) |-> e.children[k].tag] =
                    << "CONCEPT", "DEFINITION", "FORMAT", "DEFINITIONTRUST",
                       "USEDYNALINK", "CASESENSITIVE", "FULLMATCH", "TEACHERENTRY",
                       "ALIASES" >>
              /\ SubSeq(Fields(e), 3, 8) =
                    << <<"FORMAT", <<"1">>>>, <<"DEFINITIONTRUST", <<"0">>>>,
                       <<"USEDYNALINK", <<"0">>>>, <<"CASESENSITIVE", <<"0">>>>,
                       <<"FULLMATCH", <<"0">>>>, <<"TEACHERENTRY", <<"1">>>> >>
    /\ glossary # <<>> =>
          LET info == glossary[1].children[1]
          IN  /\ glossary[1].tag = "GLOSSARY"
              /\ Len(glossary[1].children) = 1
              /\ info.tag = "INFO"
              /\ Fields(info) =
                    << <<"NAME", <<"F", "o", "g", "a", "l", "o", "m", "t", "á", "r">>>>,
                       <<"INTRO", <<>>>>,
                       <<"INTROFORMAT", <<"1">>>>,
                       <<"ALLOWDUPLICATEDENTRIES", <<"0">>>>,
                       <<"DISPLAYFORMAT",
                         <<"d", "i", "c", "t", "i", "o", "n", "a", "r", "y">>>>,
                       <<"SHOWSPECIAL", <<"1">>>>,
                       <<"SHOWALPHABET", <<"1">>>>,
                       <<"SHOWALL", <<"1">>>>,
                       <<"ALLOWCOMMENTS", <<"0">>>>,
                       <<"USEDYNALINK", <<"1">>>>,
                       <<"DEFAULTAPPROVAL", <<"1">>>>,
                       <<"GLOBALGLOSSARY", <<"0">>>>,
                       <<"ENTBYPAGE", <<"1", "0">>>> >>
              /\ info.children[Len(info.children)].tag = "ENTRIES"

\* two rows of different content, one without tags, gave entries of the same shape
C8_Witness ==
    /\ Len(Entries) = 2
    /\ csv_data[2][1] # csv_data[3][1]
    /\ csv_data[2][3] = <<>>
    /\ csv_data[3][3] # <<>>
    /\ Len(AliasesOf(Entries[1]).children) = 0
    /\ Len(AliasesOf(Entries[2]).children) = 2

(* ---------------------------------------------------------------------- *)
(* Properties of main of csv_to_xml.py                                    *)
(* ---------------------------------------------------------------------- *)
\* nothing exists at the input path
InputMissing ==
    /\ args.input_csv \notin DOMAIN files0
    /\ args.input_csv \notin denied

Printed(message) == \E i \in 1..Len(stdout) : stdout[i] = message

SuccessPrinted == Printed(SuccessMessage(args.input_csv, output_xml_path))

NotFoundPrinted == Printed(NotFoundMessage(args.input_csv))

\* C5: when nothing exists at the input path the run prints the "Input file not
\* found" line for that path and nothing else, leaves every file as it was (an
\* existing output keeps its content), and ends without an exception.
C5_MissingInputReportedNothingWritten ==
    InputMissing =>
        /\ files = files0
        /\ exc = "none"
        /\ pc \in {"parse_args", "open_input", "except", "done"}
        /\ ~ SuccessPrinted
        /\ pc = "done" => stdout = << NotFoundMessage(args.input_csv) >>
        /\ pc # "done" => stdout = <<>>

\* the input was missing, the run ended, and the output that existed is intact
C5_Witness ==
    /\ pc = "done"
    /\ InputMissing
    /\ NotFoundPrinted
    /\ output_xml_path \in DOMAIN files0
    /\ files[output_xml_path] = OldFile

\* C6: the "Input file not found" line is printed if and only if nothing exists
\* at the input path; every other failure, a missing directory of the output
\* path among them, leaves main as an exception.
C6_OnlyMissingInputIsReported ==
    /\ NotFoundPrinted => InputMissing
    /\ (pc = "done" /\ InputMissing) => NotFoundPrinted
    /\ (pc = "done" /\ ~ InputMissing) => SuccessPrinted

\* where the last path component starts: the position of the last separator
LastSeparator(path) ==
    CHOOSE i \in {0} \cup { j \in 1..Len(path) : path[j] = "/" } :
        \A j \in (i + 1)..Len(path) : path[j] # "/"

\* dots of the last path component
ComponentDots(path) == { i \in (LastSeparator(path) + 1)..Len(path) : path[i] = "." }

\* the last dot of the last component, when the component has one
LastDots(path) == { i \in ComponentDots(path) : \A j \in ComponentDots(path) : j <= i }

\* the same, when moreover a character other than a dot precedes it in the component
ExtensionDots(path) ==
    { i \in LastDots(path) :
        \E j \in (LastSeparator(path) + 1)..(i - 1) : path[j] # "." }

\* the path up to the dot of D (a set of at most one position), then ".xml"
ReplaceFrom(path, D) ==
    IF D = {} THEN path \o DotXml
    ELSE SubSeq(path, 1, (CHOOSE i \in D : TRUE) - 1) \o DotXml

\* C7 as stated: the output path is the second argument when one is given,
\* otherwise the input path with what follows the last dot of its last
\* component replaced by ".xml" (".xml" appended when there is no dot), and
\* the path chosen by default always differs from the input path.
C7_DefaultOutputNeverInput ==
    pc # "parse_args" =>
        /\ output_xml_path =
              IF args.output_xml # <<>> THEN args.output_xml[1]
              ELSE ReplaceFrom(args.input_csv, LastDots(args.input_csv))
        /\ args.output_xml = <<>> => output_xml_path # args.input_csv

\* C7 amended: the output path is the second argument when a non-empty one is
\* given; otherwise the input path with its extension replaced by ".xml",
\* the extension starting at the last dot of the last component provided a
\* character other than a dot precedes it there (else ".xml" is appended);
\* the default differs from the input path exactly when the extension of the
\* input is not ".xml" already.
C7_DefaultOutputReplacesExtension ==
    pc # "parse_args" =>
        LET p == args.input_csv
            given == IF args.output_xml = <<>> THEN FALSE ELSE args.output_xml[1] # <<>>
        IN  /\ given => output_xml_path = args.output_xml[1]
            /\ ~ given =>
                  /\ output_xml_path = ReplaceFrom(p, ExtensionDots(p))
                  /\ output_xml_path = p <=>
                        \E i \in ExtensionDots(p) : SubSeq(p, i, Len(p)) = DotXml

\* an input named *.xml was converted with the default output path: the run
\* replaced its own input by the document
C7_Witness ==
    /\ pc = "done"
    /\ args.output_xml = <<>>
    /\ output_xml_path = args.input_csv
    /\ args.input_csv \in DOMAIN files0
    /\ files0[args.input_csv].kind = "csv"
    /\ files[args.input_csv].kind = "xml"

\* s is an initial part of t
IsPrefix(s, t) == Len(s) <= Len(t) /\ s = SubSeq(t, 1, Len(s))

\* C9: the input is opened, the tree built, the input closed, the tree
\* serialized, the output opened and written, in this order and each at most
\* once; no file changes before the output is opened, which happens only once
\* every row is consumed, the tree returned and serialized and the input
\* closed; the success line is printed only once the document is in the
\* output, and never along with the error line.
C9_ReadBuildSerializeWriteInOrder ==
    /\ \/ IsPrefix(log, << "open_input", "build", "close_input", "serialize",
                          "open_output", "write_output" >>)
       \/ log = << "open_input", "close_input" >>
    /\ (\E i \in 1..Len(log) : log[i] = "open_output") =>
          /\ csv_file = "closed"
          /\ consumed = Len(csv_data)
          /\ xml_data # <<>>
          /\ Len(EntriesOf(xml_data[1])) = Len(csv_data) - 1
          /\ pretty_xml = << toprettyxml(xml_data[1]) >>
    /\ (\A i \in 1..Len(log) : log[i] # "open_output") => files = files0
    /\ SuccessPrinted =>
          /\ log[Len(log)] = "write_output"
          /\ files[output_xml_path] = XmlFile(pretty_xml[1])
          /\ ~ NotFoundPrinted
    /\ Len(stdout) <= 1

\* a run over two data rows replaced an existing output and reported success
C9_Witness ==
    /\ pc = "done"
    /\ SuccessPrinted
    /\ Len(csv_data) = 2
    /\ output_xml_path \in DOMAIN files0
    /\ files0[output_xml_path] = OldFile
    /\ files[output_xml_path].kind = "xml"

(* ---------------------------------------------------------------------- *)
(* Properties of main of translate_html.py                                *)
(* ---------------------------------------------------------------------- *)
\* the text of the response when it has one that is not empty, else <<>>
ResponseText ==
    IF t_resp = <<>> THEN <<>>
    ELSE IF ~ t_resp[1].has_output_text THEN <<>>
    ELSE IF t_resp[1].output_text \in { <<>>, << <<>> >> } THEN <<>>
    ELSE t_resp[1].output_text

BadCommandLine == Len(t_argv) # 2

NoApiKey == t_key \in { <<>>, << <<>> >> }

\* C10: the output is written only after the remote call returned a non-empty
\* text, and holds exactly that text; with an argument count other than two or
\* with no or an empty OPENAI_API_KEY main returns 2 having read no input, sent
\* no request and written no file, the argument count being checked first; a
\* response with no or an empty output_text ends in RuntimeError with no file
\* written; main returns 0 only once the output holds the text.
C10_OutputWrittenOnlyFromResponse ==
    /\ t_files # t_files0 =>
          /\ ResponseText # <<>>
          /\ t_files = [p \in DOMAIN t_files0 \cup {t_argv[2]} |->
                           IF p = t_argv[2] THEN ResponseText[1] ELSE t_files0[p]]
    /\ (BadCommandLine \/ NoApiKey) =>
          /\ t_html = <<>>
          /\ t_requests = <<>>
          /\ t_files = t_files0
          /\ t_exc = "none"
          /\ t_ret = IF t_pc = "done" THEN <<2>> ELSE <<>>
    /\ (t_pc = "done" /\ BadCommandLine) => t_stderr = << "usage" >>
    /\ (t_pc = "done" /\ ~ BadCommandLine /\ NoApiKey) => t_stderr = << "no key" >>
    /\ (t_resp # <<>> /\ ResponseText = <<>> /\ t_pc # "check_text") =>
          /\ t_pc = "raised"
          /\ t_exc = "RuntimeError"
          /\ t_files = t_files0
          /\ t_ret = <<>>
    /\ t_ret = <<0>> =>
          /\ ResponseText # <<>>
          /\ t_argv[2] \in DOMAIN t_files
          /\ t_files[t_argv[2]] = ResponseText[1]
          /\ Len(t_requests) = 1

\* a run returned 0 after replacing an existing output by the translated text
C10_Witness ==
    /\ t_ret = <<0>>
    /\ t_argv[2] \in DOMAIN t_files0
    /\ t_files # t_files0
    /\ t_files[t_argv[2]] = t_resp[1].output_text[1]

=============================================================================
